---------------------------- MODULE Spec2Model ----------------------------
(***************************************************************************)
(* A model of the pcl_rustic_core point-cloud containers                   *)
(* (SimplePointCloud, CompactPointCloud), of Point and of the 4x4          *)
(* homogeneous Transform.                                                  *)
(*                                                                         *)
(* Numbers.  f32/f64 values are modelled as exact rationals <<n, d>> in    *)
(* lowest terms with d > 0; d = 0 encodes the IEEE results of a division   *)
(* by zero (<<1,0>> = +inf, <<-1,0>> = -inf, <<0,0>> = NaN).  All inputs   *)
(* are small, so every sum and product the model forms is exactly          *)
(* representable and a float division of two such values is the correctly  *)
(* rounded image of the same rational.  u8/u16 values are plain integers.  *)
(*                                                                         *)
(* Option<T> is a sequence of length at most one: None = <<>>,             *)
(* Some(v) = <<v>>.  Vec<T> is a record [el, cap]: its elements and its    *)
(* capacity.                                                               *)
(***************************************************************************)
EXTENDS Integers, Sequences, FiniteSets, TLC

\* ------------------------------------------------------------------ bounds

\* The most points a cloud holds in the model.
MaxPoints == 2

\* The translations handed to Transform::from are (k, 2k, 3k), k in 1..MaxShift.
MaxShift == 1

\* The largest coordinate of a cloud that the model hands to a transform
MaxCoord == 6

\* The largest coordinate from which a chain of Point calls goes on
MaxChain == 3

\* ------------------------------------------------------------ Option, Vec

None == <<>>

Some(v) == <<v>>

is_some(o) == o # None

unwrap_or(o, dflt) == IF o = None THEN dflt ELSE o[1]

Max(a, b) == IF a >= b THEN a ELSE b

Abs(n) == IF n < 0 THEN -n ELSE n

\* std's smallest non-empty capacity: 8 for one-byte elements, 4 for the wider
\* ones stored here (f32, Point).
min_non_zero_cap(elemSize) == IF elemSize = 1 THEN 8 ELSE 4

\* Element sizes in bytes: the u8 colour columns, and every other element.
U8 == min_non_zero_cap(1)

Wide == min_non_zero_cap(4)

\* RawVec::grow_amortized: at least double, at least what is required.
grow_amortized(cap, required, minCap) == Max(minCap, Max(2 * cap, required))

Vec_new == [el |-> <<>>, cap |-> 0]

Vec_with_capacity(n) == [el |-> <<>>, cap |-> n]

\* vec![e; n]
Vec_from_elem(e, n) == [el |-> [i \in 1..n |-> e], cap |-> n]

Vec_push(v, e, minCap) ==
    [el  |-> Append(v.el, e),
     cap |-> IF Len(v.el) = v.cap
             THEN grow_amortized(v.cap, Len(v.el) + 1, minCap)
             ELSE v.cap]

Vec_reserve(v, additional, minCap) ==
    IF additional > v.cap - Len(v.el)
    THEN [v EXCEPT !.cap = grow_amortized(v.cap, Len(v.el) + additional, minCap)]
    ELSE v

Vec_clear(v) == [v EXCEPT !.el = <<>>]

\* ------------------------------------------------------------- arithmetic

RECURSIVE GCD(_, _)
GCD(a, b) == IF b = 0 THEN a ELSE GCD(b, a % b)

Sign(n) == IF n > 0 THEN 1 ELSE IF n < 0 THEN -1 ELSE 0

\* The rational n/d in lowest terms; n/0 is +inf, -inf or NaN.
Norm(n, d) ==
    IF d = 0 THEN <<Sign(n), 0>>
    ELSE LET g == GCD(Abs(n), Abs(d))
             s == Sign(d)
         IN  <<(s * n) \div g, (s * d) \div g>>

R(n) == <<n, 1>>

\* a + b over the least common denominator
RAdd(a, b) ==
    LET g == GCD(a[2], b[2])
    IN  IF g = 0 THEN (IF a = b THEN a ELSE <<0, 0>>)
        ELSE Norm(a[1] * (b[2] \div g) + b[1] * (a[2] \div g), (a[2] \div g) * b[2])

\* a * b, the common factors cancelled before the products are formed
RMul(a, b) ==
    LET g1 == GCD(Abs(a[1]), Abs(b[2]))
        g2 == GCD(Abs(b[1]), Abs(a[2]))
        h1 == IF g1 = 0 THEN 1 ELSE g1
        h2 == IF g2 = 0 THEN 1 ELSE g2
    IN  Norm((a[1] \div h1) * (b[1] \div h2), (a[2] \div h2) * (b[2] \div h1))

RDiv(a, b) == RMul(a, <<b[2], b[1]>>)

RAbs(a) == <<Abs(a[1]), a[2]>>

\* a > b, for finite a and b
RGt(a, b) ==
    LET g == GCD(a[2], b[2])
    IN  a[1] * (b[2] \div g) > b[1] * (a[2] \div g)

IsFinite(a) == a[2] # 0

\* A two-dimensional array is a tuple of rows, each a tuple of numbers.
nrows(m) == Len(m)

ncols(m) == IF Len(m) = 0 THEN 0 ELSE Len(m[1])

dim(m) == <<nrows(m), ncols(m)>>

\* sum over k = 1..n of a[i][k] * b[k][j]
RECURSIVE dot_sum(_, _, _, _, _)
dot_sum(a, b, i, j, n) ==
    IF n = 0 THEN R(0)
    ELSE RAdd(dot_sum(a, b, i, j, n - 1), RMul(a[i][n], b[n][j]))

\* ndarray's a.dot(&b), for a of shape (r, k) and b of shape (k, c)
dot(a, b) ==
    [i \in 1..nrows(a) |-> [j \in 1..ncols(b) |-> dot_sum(a, b, i, j, ncols(a))]]

\* Array2::eye(n)
eye(n) == [i \in 1..n |-> [j \in 1..n |-> IF i = j THEN R(1) ELSE R(0)]]

\* ------------------------------------------------------------------ Point

Point_new_2d(x, y) ==
    [x |-> x, y |-> y, z |-> None, r |-> None, g |-> None, b |-> None,
     a |-> None, intensity |-> None, ring_id |-> None, time_offset |-> None]

Point_new_3d(x, y, z) ==
    [x |-> x, y |-> y, z |-> Some(z), r |-> None, g |-> None, b |-> None,
     a |-> None, intensity |-> None, ring_id |-> None, time_offset |-> None]

\* Point::transform without the copy of the attributes.
Point_transform_coords_only(p, a2b) ==
    LET point_vec == <<<<p.x>>, <<p.y>>, <<unwrap_or(p.z, R(0))>>, <<R(1)>>>>
        transformed == dot(a2b, point_vec)
    IN  Point_new_3d(transformed[1][1], transformed[2][1], transformed[3][1])

\* Point::transform leaving a point without z without one.
Point_transform_keep_2d(p, a2b) ==
    LET point_vec == <<<<p.x>>, <<p.y>>, <<unwrap_or(p.z, R(0))>>, <<R(1)>>>>
        transformed == dot(a2b, point_vec)
    IN  [p EXCEPT !.x = transformed[1][1], !.y = transformed[2][1],
                  !.z = IF is_some(p.z) THEN Some(transformed[3][1]) ELSE None]

Point_transform(p, a2b) ==
    LET point_vec == <<<<p.x>>, <<p.y>>, <<unwrap_or(p.z, R(0))>>, <<R(1)>>>>
        transformed == dot(a2b, point_vec)
    IN  [p EXCEPT !.x = transformed[1][1], !.y = transformed[2][1],
                  !.z = Some(transformed[3][1])]

\* with_rgb leaving the blue channel as it was.
Point_with_rgb_no_blue(p, r, g, b) == [p EXCEPT !.r = Some(r), !.g = Some(g)]

Point_with_rgb(p, r, g, b) == [p EXCEPT !.r = Some(r), !.g = Some(g), !.b = Some(b)]

Point_with_rgba(p, r, g, b, a) ==
    [p EXCEPT !.r = Some(r), !.g = Some(g), !.b = Some(b), !.a = Some(a)]

Point_with_intensity(p, intensity) == [p EXCEPT !.intensity = Some(intensity)]

Point_with_ring_id(p, ring_id) == [p EXCEPT !.ring_id = Some(ring_id)]

Point_with_time_offset(p, t) == [p EXCEPT !.time_offset = Some(t)]

Point_is_3d(p) == is_some(p.z)

Point_has_color(p) == is_some(p.r) /\ is_some(p.g) /\ is_some(p.b)

\* a - b
RSub(a, b) == RAdd(a, RMul(R(-1), b))

\* impl Add for Point: z is the sum when both have one, else self's; every
\* other attribute is self's.
Point_add(self, other) ==
    [self EXCEPT !.x = RAdd(self.x, other.x), !.y = RAdd(self.y, other.y),
                 !.z = IF is_some(self.z) /\ is_some(other.z)
                       THEN Some(RAdd(self.z[1], other.z[1])) ELSE self.z]

\* impl Sub for Point
Point_sub(self, other) ==
    [self EXCEPT !.x = RSub(self.x, other.x), !.y = RSub(self.y, other.y),
                 !.z = IF is_some(self.z) /\ is_some(other.z)
                       THEN Some(RSub(self.z[1], other.z[1])) ELSE self.z]

\* impl Mul<f32> for Point: x, y, z and the intensity are scaled
Point_mul(self, scalar) ==
    [self EXCEPT !.x = RMul(self.x, scalar), !.y = RMul(self.y, scalar),
                 !.z = IF is_some(self.z) THEN Some(RMul(self.z[1], scalar)) ELSE None,
                 !.intensity = IF is_some(self.intensity)
                               THEN Some(RMul(self.intensity[1], scalar)) ELSE None]

\* impl Div<f32> for Point
Point_div(self, scalar) ==
    [self EXCEPT !.x = RDiv(self.x, scalar), !.y = RDiv(self.y, scalar),
                 !.z = IF is_some(self.z) THEN Some(RDiv(self.z[1], scalar)) ELSE None,
                 !.intensity = IF is_some(self.intensity)
                               THEN Some(RDiv(self.intensity[1], scalar)) ELSE None]

\* -------------------------------------------------------------- Transform

\* Result<T, E>: Ok(v) and Err(e); a panic is reported as Panic(msg).
Ok(v) == [ok |-> TRUE, val |-> v]

Err(e) == [ok |-> FALSE, val |-> e]

Panic(msg) == [ok |-> FALSE, val |-> <<"panic", msg>>]

\* Array2::from_shape_vec((r, c), v): row-major, an error unless r * c = len
from_shape_vec(shape, v) ==
    IF shape[1] * shape[2] = Len(v)
    THEN Ok([i \in 1..shape[1] |-> [j \in 1..shape[2] |-> v[(i - 1) * shape[2] + j]]])
    ELSE Err("ShapeError")

\* The row-major flattening of a [[T; 4]; 4].
flatten(a) == [k \in 1..16 |-> a[((k - 1) \div 4) + 1][((k - 1) % 4) + 1]]

\* Transform::from([[T; 4]; 4]); expect() panics on an error.
Transform_from_array(a) ==
    LET made == from_shape_vec(<<4, 4>>, flatten(a))
    IN  IF made.ok THEN Ok([mat |-> made.val]) ELSE Panic("shape is 4x4")

\* Transform::from(Array2<T>) without the check of the shape.
Transform_from_ndarray_unchecked(m) == Ok([mat |-> m])

\* Transform::from(Array2<T>)
Transform_from_ndarray(m) ==
    IF dim(m) = <<4, 4>> THEN Ok([mat |-> m]) ELSE Err(<<"ndarray must be 4x4, got", dim(m)>>)

\* identity() built with Array2::ones instead of Array2::eye.
Transform_identity_ones == [mat |-> [i \in 1..4 |-> [j \in 1..4 |-> R(1)]]]

Transform_identity == [mat |-> eye(4)]

Transform_default == Transform_identity

\* T::from(1e-6)
Epsilon == <<1, 1000000>>

\* apply_to_point dividing by w whatever its value.
Transform_apply_to_point_unguarded(self, x, y, z) ==
    LET res == dot(self.mat, <<<<x>>, <<y>>, <<unwrap_or(z, R(0))>>, <<R(1)>>>>)
        w   == res[4][1]
    IN  Ok(<<RDiv(res[1][1], w), RDiv(res[2][1], w), RDiv(res[3][1], w)>>)

\* apply_to_point(&self, x, y, z: Option<T>) -> (T, T, T)
Transform_apply_to_point(self, x, y, z) ==
    LET zv    == unwrap_or(z, R(0))
        p_arr == from_shape_vec(<<4, 1>>, <<x, y, zv, R(1)>>)
    IN  IF ~p_arr.ok THEN Panic("unwrap")
        ELSE LET res == dot(self.mat, p_arr.val)
                 w   == res[4][1]
             IN  IF RGt(RAbs(w), RAdd(R(0), Epsilon))
                 THEN Ok(<<RDiv(res[1][1], w), RDiv(res[2][1], w), RDiv(res[3][1], w)>>)
                 ELSE Ok(<<res[1][1], res[2][1], res[3][1]>>)

\* apply_to_point(&self, xyz: Array<T>) -> Array<T>
Transform_apply_to_point_array(self, xyz) ==
    IF Len(xyz) # 3 THEN Panic("assertion failed: xyz.len() == 3")
    ELSE LET vec4 == from_shape_vec(<<4, 1>>, <<xyz[1], xyz[2], xyz[3], R(1)>>)
         IN  IF ~vec4.ok THEN Panic("unwrap")
             ELSE LET res == dot(self.mat, vec4.val)
                      w   == res[4][1]
                  IN  IF RGt(RAbs(w), RAdd(R(0), Epsilon))
                      THEN Ok(<<RDiv(res[1][1], w), RDiv(res[2][1], w), RDiv(res[3][1], w)>>)
                      ELSE Ok(<<res[1][1], res[2][1], res[3][1]>>)

\* Mul with the operands of dot exchanged.
Transform_mul_swapped(self, b2c) == [mat |-> dot(self.mat, b2c.mat)]

\* Mul with self transposed.
Transform_mul_transposed(self, b2c) ==
    [mat |-> dot(b2c.mat, [i \in 1..4 |-> [j \in 1..4 |-> self.mat[j][i]]])]

\* impl Mul for Transform: self = a2b, the result is a2c
Transform_mul(self, b2c) == [mat |-> dot(b2c.mat, self.mat)]

\* ------------------------------------------------------ CompactPointCloud

EmptyMap == [k \in {} |-> Vec_new]

Compact_new ==
    [x |-> Vec_new, y |-> Vec_new, z |-> None, intensity |-> None,
     r |-> None, g |-> None, b |-> None, a |-> None, extra_fields |-> EmptyMap]

Compact_with_capacity(capacity) ==
    [x |-> Vec_with_capacity(capacity), y |-> Vec_with_capacity(capacity),
     z |-> None, intensity |-> None,
     r |-> None, g |-> None, b |-> None, a |-> None, extra_fields |-> EmptyMap]

\* push_column with the backfill one row too long.
push_column_backfill_n(col, v, n, zero, minCap) ==
    IF is_some(v)
    THEN LET c0 == IF col = None THEN Vec_from_elem(zero, n) ELSE col[1]
         IN  Some(Vec_push(c0, v[1], minCap))
    ELSE IF is_some(col) THEN Some(Vec_push(col[1], zero, minCap))
    ELSE None

\* push_column with the earlier rows filled with the new value, not the default.
push_column_backfill_value(col, v, n, zero, minCap) ==
    IF is_some(v)
    THEN LET c0 == IF col = None THEN Vec_from_elem(v[1], n - 1) ELSE col[1]
         IN  Some(Vec_push(c0, v[1], minCap))
    ELSE IF is_some(col) THEN Some(Vec_push(col[1], zero, minCap))
    ELSE None

\* One optional column of add_point: n is self.x.len() after the push of x.
\* A value materializes the column, backfilled with n - 1 zeros, and is
\* pushed; no value pushes a zero on a materialized column only.
push_column(col, v, n, zero, minCap) ==
    IF is_some(v)
    THEN LET c0 == IF col = None THEN Vec_from_elem(zero, n - 1) ELSE col[1]
         IN  Some(Vec_push(c0, v[1], minCap))
    ELSE IF is_some(col) THEN Some(Vec_push(col[1], zero, minCap))
    ELSE None

Compact_add_point(c, point) ==
    LET x1 == Vec_push(c.x, point.x, Wide)
        n  == Len(x1.el)
    IN  [c EXCEPT
           !.x = x1,
           !.y = Vec_push(c.y, point.y, Wide),
           !.z = push_column(c.z, point.z, n, R(0), Wide),
           !.intensity = push_column(c.intensity, point.intensity, n, R(0), Wide),
           !.r = push_column(c.r, point.r, n, 0, U8),
           !.g = push_column(c.g, point.g, n, 0, U8),
           !.b = push_column(c.b, point.b, n, 0, U8),
           !.a = push_column(c.a, point.a, n, 0, U8)]

\* clear_column dropping the column instead of emptying it.
clear_column_drop(col) == None

clear_column(col) == IF is_some(col) THEN Some(Vec_clear(col[1])) ELSE None

Compact_clear(c) ==
    [c EXCEPT
       !.x = Vec_clear(c.x),
       !.y = Vec_clear(c.y),
       !.z = clear_column(c.z),
       !.intensity = clear_column(c.intensity),
       !.r = clear_column(c.r),
       !.g = clear_column(c.g),
       !.b = clear_column(c.b),
       !.a = clear_column(c.a),
       !.extra_fields = EmptyMap]

reserve_column(col, additional, minCap) ==
    IF is_some(col) THEN Some(Vec_reserve(col[1], additional, minCap)) ELSE None

Compact_reserve(c, additional) ==
    [c EXCEPT
       !.x = Vec_reserve(c.x, additional, Wide),
       !.y = Vec_reserve(c.y, additional, Wide),
       !.z = reserve_column(c.z, additional, Wide),
       !.intensity = reserve_column(c.intensity, additional, Wide),
       !.r = reserve_column(c.r, additional, U8),
       !.g = reserve_column(c.g, additional, U8),
       !.b = reserve_column(c.b, additional, U8),
       !.a = reserve_column(c.a, additional, U8)]

Compact_num_points(c) == Len(c.x.el)

Compact_is_3d(c) == is_some(c.z)

Compact_has_color(c) == is_some(c.r) /\ is_some(c.g) /\ is_some(c.b)

\* has_intensity answering from the z column.
Compact_has_intensity_from_z(c) == is_some(c.z)

Compact_has_intensity(c) == is_some(c.intensity)

Compact_has_attribute(c, attribute) ==
    CASE attribute \in {"x", "y"} -> TRUE
      [] attribute = "z" -> is_some(c.z)
      [] attribute = "r" -> is_some(c.r)
      [] attribute = "g" -> is_some(c.g)
      [] attribute = "b" -> is_some(c.b)
      [] attribute = "a" -> is_some(c.a)
      [] attribute = "intensity" -> is_some(c.intensity)
      [] OTHER -> attribute \in DOMAIN c.extra_fields

\* col.as_ref().and_then(|v| v.get(i).copied()), for the 1-based row i
get_copied(col, i) ==
    IF is_some(col) /\ i <= Len(col[1].el) THEN Some(col[1].el[i]) ELSE None

\* The Point that transform and transform_inplace rebuild from row i.
row_point(c, i) ==
    [x |-> c.x.el[i], y |-> c.y.el[i],
     z |-> get_copied(c.z, i),
     r |-> get_copied(c.r, i), g |-> get_copied(c.g, i),
     b |-> get_copied(c.b, i), a |-> get_copied(c.a, i),
     intensity |-> get_copied(c.intensity, i),
     ring_id |-> None, time_offset |-> None]

\* One optional column of transform_inplace's write-back of row i of n.
write_column(col, v, i, n, zero) ==
    IF is_some(v)
    THEN LET c0 == IF col = None THEN Vec_from_elem(zero, n) ELSE col[1]
         IN  Some([c0 EXCEPT !.el[i] = v[1]])
    ELSE col

\* The closures handed to transform / transform_inplace.
ApplyFunc(func, p) ==
    CASE func.kind = "matrix" -> Point_transform(p, func.m)
      [] func.kind = "paint"  -> Point_with_rgb(p, 1, 2, 3)
      [] func.kind = "flat"   -> Point_new_2d(p.x, p.y)

transform_inplace_row(c, i, n, func) ==
    LET np == ApplyFunc(func, row_point(c, i))
    IN  [c EXCEPT
           !.x.el[i] = np.x,
           !.y.el[i] = np.y,
           !.z = write_column(c.z, np.z, i, n, R(0)),
           !.intensity = write_column(c.intensity, np.intensity, i, n, R(0)),
           !.r = write_column(c.r, np.r, i, n, 0),
           !.g = write_column(c.g, np.g, i, n, 0),
           !.b = write_column(c.b, np.b, i, n, 0),
           !.a = write_column(c.a, np.a, i, n, 0)]

RECURSIVE transform_inplace_from(_, _, _, _)
transform_inplace_from(c, i, n, func) ==
    IF i > n THEN c
    ELSE transform_inplace_from(transform_inplace_row(c, i, n, func), i + 1, n, func)

Compact_transform_inplace(c, func) ==
    transform_inplace_from(c, 1, Compact_num_points(c), func)

RECURSIVE transform_from(_, _, _, _)
\* The loop of transform: rows i..n of self rebuilt, mapped and added to out.
transform_from(self, out, i, func) ==
    IF i > Compact_num_points(self) THEN out
    ELSE transform_from(self, Compact_add_point(out, ApplyFunc(func, row_point(self, i))),
                        i + 1, func)

Compact_transform(self, func) ==
    transform_from(self, Compact_with_capacity(Compact_num_points(self)), 1, func)

\* points() and mutable_points() are unimplemented!() on the column layout.
Compact_points(c) ==
    Panic("not implemented: Direct access to points is not supported in CompactPointCloud")

Compact_mutable_points(c) ==
    Panic("not implemented: Direct mutable access to points is not supported in CompactPointCloud")

\* ------------------------------------------------------- SimplePointCloud

Simple_new == [points |-> Vec_new]

Simple_with_capacity(capacity) == [points |-> Vec_with_capacity(capacity)]

Simple_points(s) == s.points.el

\* add_point putting the point in front of the others.
Simple_add_point_front(s, point) ==
    [s EXCEPT !.points =
        [Vec_push(s.points, point, Wide) EXCEPT !.el = <<point>> \o s.points.el]]

Simple_add_point(s, point) == [s EXCEPT !.points = Vec_push(s.points, point, Wide)]

Simple_clear(s) == [s EXCEPT !.points = Vec_clear(s.points)]

Simple_reserve(s, additional) ==
    [s EXCEPT !.points = Vec_reserve(s.points, additional, Wide)]

Simple_num_points(s) == Len(s.points.el)

Simple_is_3d(s) == \E i \in DOMAIN s.points.el : Point_is_3d(s.points.el[i])

Simple_has_color(s) == \E i \in DOMAIN s.points.el : Point_has_color(s.points.el[i])

Simple_has_intensity(s) ==
    \E i \in DOMAIN s.points.el : is_some(s.points.el[i].intensity)

Simple_has_attribute(s, attribute) ==
    CASE attribute \in {"x", "y"} -> TRUE
      [] attribute = "z" -> Simple_is_3d(s)
      [] attribute \in {"r", "g", "b", "a"} -> Simple_has_color(s)
      [] attribute = "intensity" -> Simple_has_intensity(s)
      [] attribute = "ring_id" ->
           \E i \in DOMAIN s.points.el : is_some(s.points.el[i].ring_id)
      [] attribute = "time_offset" ->
           \E i \in DOMAIN s.points.el : is_some(s.points.el[i].time_offset)
      [] OTHER -> FALSE

Simple_transform_inplace(s, a2b) ==
    [s EXCEPT !.points.el =
        [i \in DOMAIN s.points.el |-> Point_transform(s.points.el[i], a2b)]]

RECURSIVE Simple_transform_from(_, _, _, _)
\* The loop of transform: points i.. of self mapped and added to out.
Simple_transform_from(self, out, i, a2b) ==
    IF i > Simple_num_points(self) THEN out
    ELSE Simple_transform_from(
             self, Simple_add_point(out, Point_transform(self.points.el[i], a2b)), i + 1, a2b)

Simple_transform(self, a2b) ==
    Simple_transform_from(self, Simple_with_capacity(Simple_num_points(self)), 1, a2b)

Simple_mutable_points(s) == Ok(s.points.el)

\* -------------------------------------------------------- TablePointCloud

\* f64::NAN
NaN == <<0, 0>>

is_nan(v) == v = NaN

\* The Point of lib.rs: x, y, z and a HashMap of named f64 attributes.
Point_new(x, y, z) == [x |-> x, y |-> y, z |-> z, attributes |-> [k \in {} |-> NaN]]

Point_set_attribute(p, key, value) ==
    [p EXCEPT !.attributes =
        [k \in (DOMAIN p.attributes) \cup {key} |->
            IF k = key THEN value ELSE p.attributes[k]]]

Point_get_attribute(p, key) ==
    IF key \in DOMAIN p.attributes THEN Some(p.attributes[key]) ELSE None

\* polars: a Series is a name and its values, a DataFrame a sequence of
\* Series of one length with different names.
Series_new(name, values) == [name |-> name, values |-> values]

height(df) == IF Len(df) = 0 THEN 0 ELSE Len(df[1].values)

get_column_names(df) == [i \in 1..Len(df) |-> df[i].name]

DataFrame_new(columns) ==
    IF \E i, j \in 1..Len(columns) : i # j /\ columns[i].name = columns[j].name
    THEN Err(<<"Duplicate", "column name occurs more than once">>)
    ELSE IF \E i \in 1..Len(columns) : Len(columns[i].values) # Len(columns[1].values)
    THEN Err(<<"ShapeMismatch", "could not create a new DataFrame">>)
    ELSE Ok(columns)

column(df, name) ==
    IF \E i \in 1..Len(df) : df[i].name = name
    THEN Ok(df[CHOOSE i \in 1..Len(df) : df[i].name = name])
    ELSE Err(<<"ColumnNotFound", name>>)

\* with_column: a Series of one value is broadcast to the height, a Series
\* of the name of a column replaces that column, any other is appended.
with_column(df, series) ==
    LET h   == height(df)
        col == IF Len(series.values) = 1 /\ h > 1
               THEN Series_new(series.name, [i \in 1..h |-> series.values[1]])
               ELSE series
        put(c) == IF \E i \in 1..Len(df) : df[i].name = c.name
                  THEN [i \in 1..Len(df) |-> IF df[i].name = c.name THEN c ELSE df[i]]
                  ELSE Append(df, c)
    IN  IF Len(col.values) = h \/ Len(df) = 0 THEN Ok(put(col))
        ELSE IF h = 0 /\ Len(col.values) = 1 THEN Ok(put(Series_new(col.name, <<>>)))
        ELSE Err(<<"ShapeMismatch", "unable to add a column">>)

\* The `?` of Rust on a DataFrame result: the cloud of it, or its error.
Wrap(df) == IF df.ok THEN Ok([data |-> df.val]) ELSE df

Table_new ==
    Wrap(DataFrame_new(<<Series_new("x", <<>>), Series_new("y", <<>>), Series_new("z", <<>>)>>))

Table_from_xyz(x, y, z) ==
    IF Len(x) # Len(y) \/ Len(y) # Len(z)
    THEN Err(<<"ShapeMismatch", "x, y, z vectors must have the same length">>)
    ELSE Wrap(DataFrame_new(<<Series_new("x", x), Series_new("y", y), Series_new("z", z)>>))

\* The attribute keys of the model's points, in the order of String's Ord.
KeyOrder == <<"intensity", "label">>

\* all_keys.sort(); all_keys.dedup()
sort_dedup(keys) == SelectSeq(KeyOrder, LAMBDA k : k \in keys)

Table_from_points(points) ==
    IF Len(points) = 0 THEN Table_new
    ELSE LET n == Len(points)
             all_keys == sort_dedup(UNION {DOMAIN points[i].attributes : i \in 1..n})
             values(key) ==
                 [i \in 1..n |-> unwrap_or(Point_get_attribute(points[i], key), NaN)]
             series ==
                 <<Series_new("x", [i \in 1..n |-> points[i].x]),
                   Series_new("y", [i \in 1..n |-> points[i].y]),
                   Series_new("z", [i \in 1..n |-> points[i].z])>>
                 \o [j \in 1..Len(all_keys) |-> Series_new(all_keys[j], values(all_keys[j]))]
         IN  Wrap(DataFrame_new(series))

Table_len(t) == height(t.data)

Table_is_empty(t) == Table_len(t) = 0

\* x(), y(), z(): the values of the column, or the error of the lookup
Table_coords(t, name) ==
    LET c == column(t.data, name) IN IF c.ok THEN Ok(c.val.values) ELSE c

\* The product with the fourth column of m left out.
Matrix4_mul_linear(m, v) ==
    [r \in 1..4 |->
        RAdd(RAdd(RMul(m[r][1], v[1]), RMul(m[r][2], v[2])), RMul(m[r][3], v[3]))]

\* transform * point_homo of nalgebra: the rows of m times v
Matrix4_mul(m, v) ==
    [r \in 1..4 |->
        RAdd(RAdd(RMul(m[r][1], v[1]), RMul(m[r][2], v[2])),
             RAdd(RMul(m[r][3], v[3]), RMul(m[r][4], v[4])))]

\* The loop of transform copying nothing.
copy_columns_none(self, new_cloud, j) == Ok(new_cloud)

RECURSIVE copy_columns(_, _, _)
\* The loop of transform over the column names from the j-th on.
copy_columns(self, new_cloud, j) ==
    IF j > Len(self.data) THEN Ok(new_cloud)
    ELSE LET col_name == get_column_names(self.data)[j]
         IN  IF col_name \in {"x", "y", "z"} \/ ~column(self.data, col_name).ok
             THEN copy_columns(self, new_cloud, j + 1)
             ELSE LET df == with_column(new_cloud.data, column(self.data, col_name).val)
                  IN  IF df.ok THEN copy_columns(self, [data |-> df.val], j + 1)
                      ELSE Err(<<"ComputeError", df.val>>)

Table_transform(self, transform) ==
    LET x_values == Table_coords(self, "x")
        y_values == Table_coords(self, "y")
        z_values == Table_coords(self, "z")
    IN  IF ~x_values.ok THEN x_values
        ELSE IF ~y_values.ok THEN y_values
        ELSE IF ~z_values.ok THEN z_values
        ELSE LET n == Table_len(self)
                 homo(i) == Matrix4_mul(transform,
                               <<x_values.val[i], y_values.val[i], z_values.val[i], R(1)>>)
                 new_cloud == Table_from_xyz([i \in 1..n |-> RDiv(homo(i)[1], homo(i)[4])],
                                             [i \in 1..n |-> RDiv(homo(i)[2], homo(i)[4])],
                                             [i \in 1..n |-> RDiv(homo(i)[3], homo(i)[4])])
             IN  IF ~new_cloud.ok THEN new_cloud
                 ELSE copy_columns(self, new_cloud.val, 1)

\* add_attribute without its check of the length.
Table_add_attribute_unchecked(self, name, values) ==
    Wrap(with_column(self.data, Series_new(name, values)))

\* add_attribute(&mut self, ..): Ok(self afterwards), or the error
Table_add_attribute(self, name, values) ==
    IF Len(values) # Table_len(self)
    THEN Err(<<"ShapeMismatch", "Attribute length does not match point cloud length">>)
    ELSE Wrap(with_column(self.data, Series_new(name, values)))

\* The point get_point builds from row index (counted from 0) of the columns:
\* a column other than x, y, z is an attribute unless its value is NaN.
get_point_row(self, index) ==
    LET x == Table_coords(self, "x")
        y == Table_coords(self, "y")
        z == Table_coords(self, "z")
        names == {self.data[j].name : j \in 1..Len(self.data)} \ {"x", "y", "z"}
        value(col_name) == column(self.data, col_name).val.values[index + 1]
    IN  IF ~x.ok THEN x
        ELSE IF ~y.ok THEN y
        ELSE IF ~z.ok THEN z
        ELSE Ok([x |-> x.val[index + 1],
                 y |-> y.val[index + 1],
                 z |-> z.val[index + 1],
                 attributes |->
                     [col_name \in {k \in names : ~is_nan(value(k))} |-> value(col_name)]])

\* get_point answering an index out of range with a default point.
Table_get_point_default(self, index) ==
    IF index >= Table_len(self)
    THEN Ok(Point_new(R(0), R(0), R(0)))
    ELSE get_point_row(self, index)

\* get_point(index), index counted from 0
Table_get_point(self, index) ==
    IF index >= Table_len(self)
    THEN Err(<<"OutOfBounds", "Index out of bounds for length">>)
    ELSE get_point_row(self, index)

Table_to_points(self) ==
    LET n == Table_len(self)
    IN  IF \E i \in 0..(n - 1) : ~Table_get_point(self, i).ok
        THEN Table_get_point(self, CHOOSE i \in 0..(n - 1) : ~Table_get_point(self, i).ok)
        ELSE Ok([i \in 1..n |-> Table_get_point(self, i - 1).val])

\* ----------------------------------------------------------------- inputs

IntMat(a) == [i \in 1..Len(a) |-> [j \in 1..Len(a[i]) |-> R(a[i][j])]]

Translation(tx, ty, tz) ==
    IntMat(<< <<1, 0, 0, tx>>, <<0, 1, 0, ty>>, <<0, 0, 1, tz>>, <<0, 0, 0, 1>> >>)

\* diag(1, 1, 1, w): every point gets the homogeneous weight w
Weight(w) ==
    [i \in 1..4 |-> [j \in 1..4 |-> IF i # j THEN R(0) ELSE IF i = 4 THEN w ELSE R(1)]]

\* diag(0, 1, 1, 2): the projection onto the plane x = 0, with the
\* homogeneous weight 2
Squash ==
    [i \in 1..4 |-> [j \in 1..4 |->
        IF i # j \/ i = 1 THEN R(0) ELSE IF i = 4 THEN R(2) ELSE R(1)]]

\* The rotation by a quarter turn about the z axis
RotZ90 ==
    IntMat(<< <<0, -1, 0, 0>>, <<1, 0, 0, 0>>, <<0, 0, 1, 0>>, <<0, 0, 0, 1>> >>)

\* A projective matrix: the homogeneous weight of a point is its z
Perspective ==
    IntMat(<< <<1, 0, 0, 0>>, <<0, 1, 0, 0>>, <<0, 0, 1, 0>>, <<0, 0, 1, 0>> >>)

\* A weight below the epsilon of apply_to_point
Tiny == <<1, 2000000>>

\* The [[T; 4]; 4] arrays handed to Transform::from.
Arrays ==
    {Translation(k, 2 * k, 3 * k) : k \in 1..MaxShift}
      \cup {RotZ90, Weight(R(-2)), Perspective, Weight(Tiny)}

\* The Array2 values handed to Transform::from: 4x4 ones and others.
NdArrays == {RotZ90, Weight(Tiny), eye(3), IntMat(<< <<1, 2, 3, 4>> >>)}

\* The points <<x, y, z>> handed to apply_to_point.
PointArgs == {<<R(1), R(2), None>>, <<R(1), R(2), Some(R(3))>>}

\* Points built through the constructors and the with_* builders.
BuilderPoints ==
    {Point_new_2d(R(1), R(2)),
     Point_new_3d(R(1), R(2), R(3)),
     Point_with_intensity(Point_with_rgb(Point_new_2d(R(1), R(2)), 10, 20, 30), <<1, 2>>),
     Point_with_intensity(
         Point_with_rgba(Point_new_3d(R(3), R(4), R(5)), 10, 20, 30, 40), <<1, 2>>)}

\* A point written as a struct literal (every field of Point is public): one
\* colour channel without the others.
LiteralPoints == {[Point_new_2d(R(1), R(2)) EXCEPT !.r = Some(50)]}

PointInputs == BuilderPoints \cup LiteralPoints

\* The matrices handed to the clouds' transform_inplace.
CloudMats == {Squash}

\* The arguments of with_capacity and of reserve.
Capacities == {1}

Reservations == {1}

\* The closures handed to CompactPointCloud::transform_inplace.
Closures == {[kind |-> k, m |-> eye(4)] : k \in {"paint", "flat"}}

\* The sublists of the sequence q of at most n elements, in q's order.
RECURSIVE Sublists(_, _)
Sublists(q, n) ==
    IF Len(q) = 0 \/ n = 0 THEN {<<>>}
    ELSE Sublists(Tail(q), n)
           \cup {<<Head(q)>> \o rest : rest \in Sublists(Tail(q), n - 1)}

\* The points handed to from_points: without attributes, with one, with
\* another one, and with an attribute whose value is NaN.
TablePoints ==
    <<Point_new(R(1), R(2), R(3)),
      Point_set_attribute(Point_new(R(1), R(2), R(3)), "intensity", R(100)),
      Point_set_attribute(Point_new(R(4), R(5), R(6)), "label", R(7)),
      Point_set_attribute(Point_new(R(4), R(5), R(6)), "intensity", NaN)>>

PointLists == Sublists(TablePoints, MaxPoints)

\* The vectors handed to from_xyz and add_attribute: 1.0, 2.0, ..
Vector(n) == [i \in 1..n |-> R(i)]

\* x, y and z of from_xyz: of one length, and with one of another length
XyzInputs ==
    {<<Vector(n), Vector(n), Vector(n)>> : n \in 0..MaxPoints}
      \cup {<<Vector(2), Vector(1), Vector(2)>>, <<Vector(1), Vector(1), Vector(0)>>}

AttributeInputs == {"intensity", "x"} \X {Vector(n) : n \in 0..MaxPoints}

\* The Matrix4 handed to TablePointCloud::transform and the arrays handed to
\* SimplePointCloud::transform: translations, the identity, a weight of 2, a
\* projection.
TransformMats ==
    {Translation(10 * k, 20 * k, 30 * k) : k \in 1..MaxShift}
      \cup {eye(4), Weight(R(2)), Perspective}

\* The indices handed to get_point
Indices == 0..(MaxPoints + 1)

RECURSIVE Simple_from(_)
\* The SimplePointCloud of the points q added in order to a new one.
Simple_from(q) ==
    IF Len(q) = 0 THEN Simple_new
    ELSE Simple_add_point(Simple_from(SubSeq(q, 1, Len(q) - 1)), q[Len(q)])

\* The points of the row layout, in a sequence.
RowPoints ==
    <<Point_new_2d(R(1), R(2)),
      Point_new_3d(R(1), R(2), R(3)),
      Point_with_time_offset(
          Point_with_ring_id(
              Point_with_intensity(
                  Point_with_rgba(Point_new_3d(R(3), R(4), R(5)), 10, 20, 30, 40), <<1, 2>>),
              7),
          <<1, 4>>)>>

\* ------------------------------------------------------------------ state

VARIABLES
    simple,     \* a SimplePointCloud
    compact,    \* a CompactPointCloud fed the same calls
    added,      \* Some(the points added so far) while nothing but add_point
                \* and reserve has been called since construction, else None
    ta, tb, tc, \* three Transform operands
    pt,         \* the point <<x, y, z>> handed to apply_to_point
    res,        \* what the last operation recorded returned
    table       \* a TablePointCloud

cloudVars == <<simple, compact, added>>

transformVars == <<ta, tb, tc, pt, res>>

vars == <<simple, compact, added, ta, tb, tc, pt, res, table>>

TransformIdle ==
    /\ ta = Transform_default
    /\ tb = Transform_default
    /\ tc = Transform_default
    /\ pt = <<R(0), R(0), None>>
    /\ res = None

\* new() or with_capacity(capacity), the same call on both layouts
CloudInit ==
    /\ \/ /\ simple = Simple_new
          /\ compact = Compact_new
       \/ \E capacity \in Capacities :
             /\ simple = Simple_with_capacity(capacity)
             /\ compact = Compact_with_capacity(capacity)
    /\ added = Some(<<>>)

TableIdle == table = Table_new.val

Init == CloudInit /\ TransformIdle /\ TableIdle

AddPoint(point) ==
    /\ Simple_num_points(simple) < MaxPoints
    /\ Compact_num_points(compact) < MaxPoints
    /\ simple' = Simple_add_point(simple, point)
    /\ compact' = Compact_add_point(compact, point)
    /\ added' = IF is_some(added) THEN Some(Append(added[1], point)) ELSE None
    /\ UNCHANGED <<transformVars, table>>

Clear ==
    /\ simple' = Simple_clear(simple)
    /\ compact' = Compact_clear(compact)
    /\ added' = None
    /\ UNCHANGED <<transformVars, table>>

Reserve(additional) ==
    /\ simple' = Simple_reserve(simple, additional)
    /\ compact' = Compact_reserve(compact, additional)
    /\ UNCHANGED <<added, transformVars, table>>

\* transform_inplace with a matrix: SimplePointCloud takes the matrix,
\* CompactPointCloud the closure |p| p.transform(&a2b).
TransformInplace(a2b) ==
    /\ simple' = Simple_transform_inplace(simple, a2b)
    /\ compact' = Compact_transform_inplace(compact, [kind |-> "matrix", m |-> a2b])
    /\ added' = None
    /\ UNCHANGED <<transformVars, table>>

\* CompactPointCloud::transform_inplace with any of the closures
CompactTransformInplace(func) ==
    /\ compact' = Compact_transform_inplace(compact, func)
    /\ added' = None
    /\ UNCHANGED <<simple, transformVars, table>>

Next ==
    \/ \E point \in PointInputs : AddPoint(point)
    \/ Clear
    \/ \E additional \in Reservations : Reserve(additional)
    \/ \E a2b \in CloudMats : TransformInplace(a2b)
    \/ \E func \in Closures : CompactTransformInplace(func)

Spec == Init /\ [][Next]_vars

\* ------------------------------------------------------ claims: the clouds

OptionalColumns == {"z", "intensity", "r", "g", "b", "a"}

\* The default a column is backfilled with: 0.0 for f32, 0 for u8.
Zero(col) == IF col \in {"z", "intensity"} THEN R(0) ELSE 0

AttributeNames ==
    {"x", "y", "z", "r", "g", "b", "a", "intensity", "ring_id", "time_offset", "label"}

\* C1: in every reachable state of a CompactPointCloud every materialized
\* column (z, intensity, r, g, b, a) has exactly num_points() elements, and
\* after N add_point calls on a fresh cloud num_points() is N.
C1_ColumnsSynchronized ==
    /\ \A col \in OptionalColumns :
          is_some(compact[col]) => Len(compact[col][1].el) = Compact_num_points(compact)
    /\ Len(compact.y.el) = Compact_num_points(compact)
    /\ is_some(added) => Compact_num_points(compact) = Len(added[1])

\* Two rows, with columns that were materialized by a later add_point (z,
\* backfilled at row 1) and by transform_inplace (after which `added` is None).
C1_Witness ==
    /\ Compact_num_points(compact) = 2
    /\ added = None
    /\ is_some(compact.z) /\ is_some(compact.intensity)
    /\ is_some(compact.r) /\ is_some(compact.g) /\ is_some(compact.b)
    /\ is_some(compact.a)

\* C2: for a cloud built by add_point calls only, every materialized optional
\* column holds at row i the value the i-th added point carried, and the
\* default 0 if it carried none, for the rows before and after the column was
\* materialized.
C2_Backfill ==
    is_some(added) =>
        \A col \in OptionalColumns :
            is_some(compact[col]) =>
                \A i \in 1..Len(added[1]) :
                    /\ i \in DOMAIN compact[col][1].el
                    /\ compact[col][1].el[i] = unwrap_or(added[1][i][col], Zero(col))

\* A colourless point, then a coloured one: the colour columns are
\* [0, supplied value].
C2_Witness ==
    /\ is_some(added)
    /\ Len(added[1]) = 2
    /\ ~Point_has_color(added[1][1])
    /\ added[1][1].r = None
    /\ Point_has_color(added[1][2])
    /\ compact.r[1].el = <<0, 10>>
    /\ compact.g[1].el = <<0, 20>>
    /\ compact.b[1].el = <<0, 30>>

\* C3: clear() leaves a CompactPointCloud with no points and with the same
\* answer of has_attribute for every name, and of is_3d, has_color and
\* has_intensity.
C3_ClearPreservesSchema ==
    [][Clear =>
        /\ Compact_num_points(compact') = 0
        /\ \A name \in AttributeNames :
              Compact_has_attribute(compact', name) = Compact_has_attribute(compact, name)
        /\ Compact_is_3d(compact') = Compact_is_3d(compact)
        /\ Compact_has_color(compact') = Compact_has_color(compact)
        /\ Compact_has_intensity(compact') = Compact_has_intensity(compact)]_vars

\* An empty cloud with materialized columns: only clear() leaves one.
C3_Witness ==
    /\ Compact_num_points(compact) = 0
    /\ Compact_is_3d(compact)
    /\ Compact_has_color(compact)
    /\ Compact_has_intensity(compact)
    /\ Compact_has_attribute(compact, "a")
    /\ compact.z[1].el = <<>>

CompactKeepsAnswers ==
    /\ Compact_is_3d(compact) => Compact_is_3d(compact')
    /\ Compact_has_color(compact) => Compact_has_color(compact')
    /\ Compact_has_intensity(compact) => Compact_has_intensity(compact')

SimpleKeepsAnswers ==
    /\ Simple_is_3d(simple) => Simple_is_3d(simple')
    /\ Simple_has_color(simple) => Simple_has_color(simple')
    /\ Simple_has_intensity(simple) => Simple_has_intensity(simple')

ColourComplete(p) == is_some(p.r) = is_some(p.g) /\ is_some(p.g) = is_some(p.b)

\* C5: for a CompactPointCloud built by add_point calls only, is_3d() is true
\* iff an added point carried z, has_intensity() iff one carried intensity,
\* and, the points being built with with_rgb / with_rgba, has_color() iff one
\* carried colour.
C5_SchemaReflectsAdded ==
    is_some(added) =>
        LET ps == added[1]
        IN  /\ Compact_is_3d(compact) = (\E i \in DOMAIN ps : is_some(ps[i].z))
            /\ Compact_has_intensity(compact)
                 = (\E i \in DOMAIN ps : is_some(ps[i].intensity))
            /\ (\E i \in DOMAIN ps : Point_has_color(ps[i])) => Compact_has_color(compact)
            /\ (\A i \in DOMAIN ps : ColourComplete(ps[i])) =>
                  (Compact_has_color(compact) => \E i \in DOMAIN ps : Point_has_color(ps[i]))

\* The scenario of the test compact_add_and_attributes: a 2D point, then a 3D
\* point with rgba and intensity.
C5_Witness ==
    /\ is_some(added)
    /\ Len(added[1]) = 2
    /\ added[1][1] = Point_new_2d(R(1), R(2))
    /\ is_some(added[1][2].z) /\ is_some(added[1][2].a)
    /\ is_some(added[1][2].intensity)
    /\ Compact_is_3d(compact) /\ Compact_has_color(compact)
    /\ Compact_has_intensity(compact)

\* -------------------------------------------------------- Transform calls

\* The clouds of a run that only exercises Transform.
CloudIdle ==
    /\ simple = Simple_new
    /\ compact = Compact_new
    /\ added = Some(<<>>)

TransformInit ==
    /\ ta = Transform_default
    /\ tb = Transform_default
    /\ tc = Transform_default
    /\ pt \in PointArgs
    /\ res = None

TInit == CloudIdle /\ TransformInit /\ TableIdle

IsIntegral(t) ==
    \A i \in 1..nrows(t.mat) : \A j \in 1..ncols(t.mat) : t.mat[i][j][2] = 1

\* The model's integers are 32 bits wide: of three operands at most one has
\* an entry below the epsilon, so that no product of them overflows.
Representable(t1, t2, t3) ==
    Cardinality({k \in 1..3 : ~IsIntegral(<<t1, t2, t3>>[k])}) <= 1

\* What the constructor op returns for the argument arg.
Construct(op, arg) ==
    CASE op = "from_array"   -> Transform_from_array(arg)
      [] op = "from_ndarray" -> Transform_from_ndarray(arg)
      [] op = "identity"     -> Ok(Transform_identity)
      [] op = "default"      -> Ok(Transform_default)

\* A constructed Transform becomes the first operand; the former first and
\* second operands become the second and the third.
Bind(op, arg) ==
    LET out == Construct(op, arg)
    IN  /\ res' = Some([op |-> op, arg |-> arg, out |-> out])
        /\ IF out.ok
           THEN /\ Representable(out.val, ta, tb)
                /\ ta' = out.val
                /\ tb' = ta
                /\ tc' = tb
           ELSE UNCHANGED <<ta, tb, tc>>
        /\ UNCHANGED <<pt, cloudVars, table>>

FromArray(a) == Bind("from_array", a)

FromNdarray(m) == Bind("from_ndarray", m)

Identity == Bind("identity", None)

Default == Bind("default", None)

\* ta * tb
Mul ==
    /\ res' = Some([op |-> "mul", arg |-> <<ta, tb>>, out |-> Ok(Transform_mul(ta, tb))])
    /\ UNCHANGED <<ta, tb, tc, pt, cloudVars, table>>

\* (ta * tb) * tc and ta * (tb * tc)
MulThree ==
    /\ res' = Some([op |-> "mul3", arg |-> <<ta, tb, tc>>,
                    out |-> Ok(<<Transform_mul(Transform_mul(ta, tb), tc),
                                 Transform_mul(ta, Transform_mul(tb, tc))>>)])
    /\ UNCHANGED <<ta, tb, tc, pt, cloudVars, table>>

\* ta * identity() and identity() * ta
MulIdentity ==
    /\ res' = Some([op |-> "mul_identity", arg |-> <<ta>>,
                    out |-> Ok(<<Transform_mul(ta, Transform_identity),
                                 Transform_mul(Transform_identity, ta)>>)])
    /\ UNCHANGED <<ta, tb, tc, pt, cloudVars, table>>

\* ta.apply_to_point(x, y, z)
ApplyToPoint ==
    /\ res' = Some([op |-> "apply_to_point", arg |-> pt,
                    out |-> Transform_apply_to_point(ta, pt[1], pt[2], pt[3])])
    /\ UNCHANGED <<ta, tb, tc, pt, cloudVars, table>>

\* The arrays handed to the array overload: x, y and z (0 for a point
\* without z), one element short, and one element long.
XyzArrays ==
    LET xyz == <<pt[1], pt[2], unwrap_or(pt[3], R(0))>>
    IN  {xyz, SubSeq(xyz, 1, 2), Append(xyz, R(1))}

\* ta.apply_to_point(xyz)
ApplyToPointArray(xyz) ==
    /\ res' = Some([op |-> "apply_to_point_array", arg |-> xyz,
                    out |-> Transform_apply_to_point_array(ta, xyz)])
    /\ UNCHANGED <<ta, tb, tc, pt, cloudVars, table>>

TNext ==
    \/ \E a \in Arrays : FromArray(a)
    \/ \E m \in NdArrays : FromNdarray(m)
    \/ Identity
    \/ Default
    \/ Mul
    \/ MulThree
    \/ MulIdentity
    \/ ApplyToPoint
    \/ \E xyz \in XyzArrays : ApplyToPointArray(xyz)

TransformSpec == TInit /\ [][TNext]_vars

\* --------------------------------------------------- claims: the Transform

\* The last call, when there was one of the operation op.
Called(op) == res # None /\ res[1].op = op

\* C6: every Transform obtained from the constructors and from Mul has a 4x4
\* matrix; from an ndarray whose shape is not (4, 4) the constructor returns
\* an error and no Transform.
C6_ShapeIs4x4 ==
    /\ dim(ta.mat) = <<4, 4>>
    /\ dim(tb.mat) = <<4, 4>>
    /\ dim(tc.mat) = <<4, 4>>
    /\ \A op \in {"from_array", "identity", "default", "mul"} :
          Called(op) => res[1].out.ok /\ dim(res[1].out.val.mat) = <<4, 4>>
    /\ \A op \in {"mul3", "mul_identity"} :
          Called(op) => /\ dim(res[1].out.val[1].mat) = <<4, 4>>
                        /\ dim(res[1].out.val[2].mat) = <<4, 4>>
    /\ Called("from_ndarray") =>
          /\ res[1].out.ok = (dim(res[1].arg) = <<4, 4>>)
          /\ res[1].out.ok => res[1].out.val = [mat |-> res[1].arg] /\ ta = res[1].out.val
          /\ ~res[1].out.ok => res[1].out.val[1] = "ndarray must be 4x4, got"

\* Transform::from was handed a 3x3 ndarray and returned the error.
C6_Witness ==
    /\ Called("from_ndarray")
    /\ dim(res[1].arg) = <<3, 3>>
    /\ ~res[1].out.ok

\* The coordinates apply_to_point returns for the point <<x, y, z>>.
Mapped(t, p) == Transform_apply_to_point(t, p[1], p[2], p[3])

\* C7: composing t with identity() on either side maps every point as t
\* alone does, and identity() maps (x, y, z) to itself (z = 0 when absent).
C7_IdentityLaws ==
    /\ Called("mul_identity") =>
          /\ Mapped(res[1].out.val[1], pt) = Mapped(ta, pt)
          /\ Mapped(res[1].out.val[2], pt) = Mapped(ta, pt)
    /\ Called("apply_to_point") /\ ta = Transform_identity =>
          res[1].out = Ok(<<pt[1], pt[2], unwrap_or(pt[3], R(0))>>)

\* A projective operand (its weight is not 1) was composed with identity().
C7_Witness ==
    /\ Called("mul_identity")
    /\ ta.mat[4] # <<R(0), R(0), R(0), R(1)>>
    /\ Mapped(ta, pt).val # <<pt[1], pt[2], unwrap_or(pt[3], R(0))>>

\* C8: (t1 * t2) * t3 and t1 * (t2 * t3) map every point to the same
\* coordinates.
C8_Associative ==
    Called("mul3") => Mapped(res[1].out.val[1], pt) = Mapped(res[1].out.val[2], pt)

\* Three different operands, two of which do not commute.
C8_Witness ==
    /\ Called("mul3")
    /\ ta # tb /\ tb # tc /\ ta # tc
    /\ Transform_identity \notin {ta, tb, tc}
    /\ Transform_mul(ta, tb) # Transform_mul(tb, ta)
    /\ Mapped(res[1].out.val[1], pt) # Mapped(tc, pt)

Affine(t) == t.mat[4] = <<R(0), R(0), R(0), R(1)>>

\* C9: for affine a2b and b2c, (a2b * b2c) maps a point to what b2c makes of
\* a2b's image of it, and the operands are as they were before the call.
C9_SelfFirst ==
    Called("mul") =>
        /\ res[1].arg = <<ta, tb>>
        /\ Affine(ta) /\ Affine(tb) =>
              LET b == Mapped(ta, pt).val
              IN  Mapped(res[1].out.val, pt) = Mapped(tb, <<b[1], b[2], Some(b[3])>>)

\* Two affine operands that do not commute on the point.
C9_Witness ==
    /\ Called("mul")
    /\ Affine(ta) /\ Affine(tb)
    /\ Mapped(Transform_mul(ta, tb), pt) # Mapped(Transform_mul(tb, ta), pt)

\* Row i of t times the homogeneous point [v1, v2, v3, 1].
Lifted(t, v, i) ==
    RAdd(RAdd(RMul(t.mat[i][1], v[1]), RMul(t.mat[i][2], v[2])),
         RAdd(RMul(t.mat[i][3], v[3]), t.mat[i][4]))

\* out is what the claim describes for the point v: the first three
\* components divided by the fourth exactly when that exceeds the epsilon,
\* and no component the result of a division by zero.
WeightHandled(t, v, out) ==
    LET w == Lifted(t, v, 4)
    IN  /\ out.ok
        /\ \A i \in 1..3 : IsFinite(out.val[i])
        /\ IF RGt(RAbs(w), Epsilon)
           THEN \A i \in 1..3 : RMul(out.val[i], w) = Lifted(t, v, i)
           ELSE \A i \in 1..3 : out.val[i] = Lifted(t, v, i)

TableInit == CloudIdle /\ TransformIdle /\ TableIdle

\* The call of op with arg returned out.
Returned(op, arg, out) == res' = Some([op |-> op, arg |-> arg, out |-> out])

\* A whole number of at most MaxCoord
Whole(v) == v[2] = 1 /\ Abs(v[1]) <= MaxCoord

\* The range of coordinates in which the model calls transform.
TableSmall ==
    \A j \in 1..Len(table.data) : \A i \in 1..Table_len(table) :
        table.data[j].name \in {"x", "y", "z"} => Whole(table.data[j].values[i])

TableNew ==
    /\ Returned("new", None, Table_new)
    /\ table' = Table_new.val
    /\ UNCHANGED <<cloudVars, ta, tb, tc, pt>>

FromXyz(xyz) ==
    LET out == Table_from_xyz(xyz[1], xyz[2], xyz[3])
    IN  /\ Returned("from_xyz", xyz, out)
        /\ table' = IF out.ok THEN out.val ELSE table
        /\ UNCHANGED <<cloudVars, ta, tb, tc, pt>>

FromPoints(points) ==
    LET out == Table_from_points(points)
    IN  /\ Returned("from_points", points, out)
        /\ table' = IF out.ok THEN out.val ELSE table
        /\ UNCHANGED <<cloudVars, ta, tb, tc, pt>>

\* table.add_attribute(name, values): on an error self is as it was
AddAttribute(name, values) ==
    LET out == Table_add_attribute(table, name, values)
    IN  /\ Returned("add_attribute", <<table, name, values>>, out)
        /\ table' = IF out.ok THEN out.val ELSE table
        /\ UNCHANGED <<cloudVars, ta, tb, tc, pt>>

\* table = table.transform(&m)?
TableTransform(m) ==
    LET out == Table_transform(table, m)
    IN  /\ TableSmall
        /\ Returned("transform", <<table, m>>, out)
        /\ table' = IF out.ok THEN out.val ELSE table
        /\ UNCHANGED <<cloudVars, ta, tb, tc, pt>>

GetPoint(index) ==
    /\ Returned("get_point", index, Table_get_point(table, index))
    /\ UNCHANGED <<cloudVars, ta, tb, tc, pt, table>>

ToPoints ==
    /\ Returned("to_points", None, Table_to_points(table))
    /\ UNCHANGED <<cloudVars, ta, tb, tc, pt, table>>

TableNext ==
    \/ TableNew
    \/ \E xyz \in XyzInputs : FromXyz(xyz)
    \/ \E points \in PointLists : FromPoints(points)
    \/ \E a \in AttributeInputs : AddAttribute(a[1], a[2])
    \/ \E m \in TransformMats : TableTransform(m)
    \/ \E index \in Indices : GetPoint(index)
    \/ ToPoints

TableSpec == TableInit /\ [][TableNext]_vars

\* ------------------------------------------------ transforms of the clouds

\* The clouds handed to transform: a SimplePointCloud of points added to a
\* new one, or a TablePointCloud made from points.
SimpleClouds == {Simple_from(q) : q \in Sublists(RowPoints, MaxPoints)}

Tables == {Table_from_points(points).val : points \in PointLists}

CloudTransformInit ==
    /\ compact = Compact_new
    /\ added = Some(<<>>)
    /\ TransformIdle
    /\ \/ simple \in SimpleClouds /\ TableIdle
       \/ simple = Simple_new /\ table \in Tables

SimpleSmall ==
    \A i \in 1..Simple_num_points(simple) :
        /\ Whole(simple.points.el[i].x)
        /\ Whole(simple.points.el[i].y)
        /\ Whole(unwrap_or(simple.points.el[i].z, R(0)))

\* simple = simple.transform(&a2b)
SimpleTransform(a2b) ==
    LET out == Simple_transform(simple, a2b)
    IN  /\ SimpleSmall
        /\ Returned("SimplePointCloud::transform", <<simple, a2b>>, Ok(out))
        /\ simple' = out
        /\ UNCHANGED <<compact, added, ta, tb, tc, pt, table>>

\* simple.transform_inplace(&a2b)
SimpleTransformInplace(a2b) ==
    LET out == Simple_transform_inplace(simple, a2b)
    IN  /\ SimpleSmall
        /\ Returned("SimplePointCloud::transform_inplace", <<simple, a2b>>, Ok(out))
        /\ simple' = out
        /\ UNCHANGED <<compact, added, ta, tb, tc, pt, table>>

CloudTransformNext ==
    \/ \E a2b \in TransformMats : SimpleTransform(a2b)
    \/ \E a2b \in TransformMats : SimpleTransformInplace(a2b)
    \/ \E m \in TransformMats : TableTransform(m)

CloudTransformSpec == CloudTransformInit /\ [][CloudTransformNext]_vars

\* ------------------------------------- claims: transforms of the clouds

SimpleTransforms == {"SimplePointCloud::transform", "SimplePointCloud::transform_inplace"}

\* m is the identity but for its translation column.
IsTranslation(m) ==
    \A i, j \in 1..4 : (j # 4 \/ i = 4) => m[i][j] = eye(4)[i][j]

\* The coordinates of row i of a table, and of a point of the row layout.
TableRow(t, i) == <<t.data[1].values[i], t.data[2].values[i], t.data[3].values[i]>>

Coords(p) == <<p.x, p.y, unwrap_or(p.z, R(0))>>

\* v moved by the translation column of m
Shifted(v, m) == <<RAdd(v[1], m[1][4]), RAdd(v[2], m[2][4]), RAdd(v[3], m[3][4])>>

\* C11: a transform that is the identity with the translation column
\* (tx, ty, tz) maps a point (x, y, z), alone through apply_to_point or as a
\* point of a cloud, to (x + tx, y + ty, z + tz).
C11_Translation ==
    /\ Called("transform") /\ IsTranslation(res[1].arg[2]) =>
          LET before == res[1].arg[1]
              m      == res[1].arg[2]
          IN  /\ res[1].out.ok
              /\ Table_len(res[1].out.val) = Table_len(before)
              /\ \A i \in 1..Table_len(before) :
                    /\ TableRow(res[1].out.val, i) = Shifted(TableRow(before, i), m)
                    /\ Transform_apply_to_point(Transform_from_array(m).val,
                           TableRow(before, i)[1], TableRow(before, i)[2],
                           Some(TableRow(before, i)[3]))
                         = Ok(Shifted(TableRow(before, i), m))
    /\ \A op \in SimpleTransforms :
          Called(op) /\ IsTranslation(res[1].arg[2]) =>
              LET before == res[1].arg[1].points.el
                  after  == res[1].out.val.points.el
                  m      == res[1].arg[2]
              IN  /\ Len(after) = Len(before)
                  /\ \A i \in 1..Len(before) :
                        /\ Coords(after[i]) = Shifted(Coords(before[i]), m)
                        /\ Transform_apply_to_point(Transform_from_array(m).val,
                               before[i].x, before[i].y, before[i].z)
                             = Ok(Shifted(Coords(before[i]), m))

\* The table with the point (1, 2, 3) was translated by (10, 20, 30).
C11_Witness ==
    /\ Called("transform")
    /\ res[1].arg[2] = Translation(10, 20, 30)
    /\ Table_len(res[1].arg[1]) > 0
    /\ TableRow(res[1].arg[1], 1) = <<R(1), R(2), R(3)>>
    /\ res[1].out.ok
    /\ TableRow(res[1].out.val, 1) = <<R(11), R(22), R(33)>>

\* C12: each point of a SimplePointCloud after transform(m) or
\* transform_inplace(m) has the coordinates Transform(m).apply_to_point gives
\* for the point it was, the division by the weight w included.
C12_MappedAsApplyToPoint ==
    \A op \in SimpleTransforms :
        Called(op) =>
            LET before == res[1].arg[1].points.el
                after  == res[1].out.val.points.el
                m      == res[1].arg[2]
            IN  /\ Len(after) = Len(before)
                /\ \A i \in 1..Len(before) :
                      Ok(Coords(after[i]))
                        = Transform_apply_to_point(Transform_from_array(m).val,
                              before[i].x, before[i].y, before[i].z)

NonCoordinates == {"r", "g", "b", "a", "intensity", "ring_id", "time_offset"}

\* The columns of a table other than x, y and z, in their order.
AttributeColumns(t) ==
    SelectSeq(t.data, LAMBDA series : series.name \notin {"x", "y", "z"})

\* C13: a transformed cloud (SimplePointCloud, TablePointCloud) has as many
\* points as the cloud it was made from, in the same order, and every
\* attribute that is not a coordinate is what it was.
C13_AttributesPreserved ==
    /\ \A op \in SimpleTransforms :
          Called(op) =>
              LET before == res[1].arg[1].points.el
                  after  == res[1].out.val.points.el
              IN  /\ Len(after) = Len(before)
                  /\ \A i \in 1..Len(before) : \A f \in NonCoordinates :
                        after[i][f] = before[i][f]
    /\ Called("transform") =>
          /\ res[1].out.ok
          /\ Table_len(res[1].out.val) = Table_len(res[1].arg[1])
          /\ AttributeColumns(res[1].out.val) = AttributeColumns(res[1].arg[1])

\* A table of two points with two attribute columns was transformed, and
\* its coordinates changed.
C13_Witness ==
    /\ Called("transform")
    /\ Table_len(res[1].arg[1]) = 2
    /\ Len(AttributeColumns(res[1].arg[1])) = 2
    /\ res[1].out.ok
    /\ TableRow(res[1].out.val, 1) # TableRow(res[1].arg[1], 1)

\* ----------------------------- claims: the contract of the two layouts

\* The values a column holds, whatever its capacity.
Contents(col) == IF is_some(col) THEN Some(col[1].el) ELSE None

\* What a CompactPointCloud holds: its rows and its materialized columns.
Layout(c) ==
    [num_points |-> Compact_num_points(c),
     x |-> c.x.el, y |-> c.y.el,
     z |-> Contents(c.z), intensity |-> Contents(c.intensity),
     r |-> Contents(c.r), g |-> Contents(c.g),
     b |-> Contents(c.b), a |-> Contents(c.a),
     extra_fields |-> DOMAIN c.extra_fields]

\* The closures the two transforms are compared on.
PointFuncs == Closures \cup {[kind |-> "matrix", m |-> a2b] : a2b \in CloudMats}

\* C14: for every reachable CompactPointCloud c and every per-point function
\* f, the cloud c.transform(f) returns and the cloud c.transform_inplace(f)
\* leaves have the same num_points, the same materialized columns and the
\* same value in every column at every row.
C14_SameMapping ==
    \A func \in PointFuncs :
        Layout(Compact_transform(compact, func))
            = Layout(Compact_transform_inplace(compact, func))

\* ------------------------------------------------- claims: the table

\* C15: on a table of length N, get_point(i) returns the OutOfBounds error
\* for every i >= N (i = N and N = 0 among them), and for every i < N
\* Ok(the point of row i): x, y, z of the row, and as attributes the values
\* of the other columns at the row. It neither panics nor answers an index
\* out of range with a point.
C15_BoundsChecked ==
    Called("get_point") =>
        LET i == res[1].arg
            out == res[1].out
            N == Table_len(table)
        IN  /\ i >= N => ~out.ok /\ out.val[1] = "OutOfBounds"
            /\ i < N =>
                  /\ out.ok
                  /\ <<out.val.x, out.val.y, out.val.z>> = TableRow(table, i + 1)
                  /\ \A j \in 4..Len(table.data) :
                        LET col == table.data[j]
                        IN  IF is_nan(col.values[i + 1])
                            THEN col.name \notin DOMAIN out.val.attributes
                            ELSE Point_get_attribute(out.val, col.name)
                                     = Some(col.values[i + 1])
                  /\ DOMAIN out.val.attributes
                        \subseteq {table.data[j].name : j \in 4..Len(table.data)}

\* get_point(N) on a table of N = 2 points with an attribute column
C15_Witness ==
    /\ Called("get_point")
    /\ Table_len(table) = 2
    /\ Len(table.data) > 3
    /\ res[1].arg = 2
    /\ ~res[1].out.ok

\* --------------------------------------- points() on the two layouts

\* points() on both layouts: <<what the row layout returns, the column one>>
Points ==
    /\ Returned("points", None, <<Ok(Simple_points(simple)), Compact_points(compact)>>)
    /\ UNCHANGED <<cloudVars, ta, tb, tc, pt, table>>

\* mutable_points() on both layouts
MutablePoints ==
    /\ Returned("mutable_points", None,
                <<Simple_mutable_points(simple), Compact_mutable_points(compact)>>)
    /\ UNCHANGED <<cloudVars, ta, tb, tc, pt, table>>

\* The calls on the clouds, then points() or mutable_points() on what they
\* built.
ContractNext ==
    \/ res = None /\ Next
    \/ Points
    \/ MutablePoints

ContractSpec == Init /\ [][ContractNext]_vars

\* The call ended in a panic.
IsPanic(out) == ~out.ok /\ out.val[1] = "panic"

\* C16: in every reachable state of a SimplePointCloud and a
\* CompactPointCloud, a call of points() or mutable_points() completes or
\* reports a failure value; none aborts.
C16_NoCallPanics ==
    (Called("points") \/ Called("mutable_points")) =>
        \A k \in 1..2 : ~IsPanic(res[1].out[k])

\* C17: in every table reachable through new, from_xyz, from_points,
\* add_attribute and transform all columns have len() values; from_xyz with
\* x, y, z of unequal lengths returns an error; add_attribute(name, values)
\* with values.len() # len() returns an error and leaves the table, its
\* columns and its len(), as it was.
C17_ColumnsOneLength ==
    /\ \A j \in 1..Len(table.data) : Len(table.data[j].values) = Table_len(table)
    /\ Called("from_xyz") =>
          LET xyz == res[1].arg
          IN  (Len(xyz[1]) # Len(xyz[2]) \/ Len(xyz[2]) # Len(xyz[3])) =>
                  ~res[1].out.ok /\ ~IsPanic(res[1].out)
    /\ Called("add_attribute") =>
          LET self == res[1].arg[1]
              values == res[1].arg[3]
          IN  Len(values) # Table_len(self) =>
                  /\ ~res[1].out.ok /\ ~IsPanic(res[1].out)
                  /\ table = self

\* add_attribute of one value on a table of two points and an attribute
\* column was refused.
C17_Witness ==
    /\ Called("add_attribute")
    /\ Table_len(res[1].arg[1]) = 2
    /\ Len(res[1].arg[1].data) > 3
    /\ Len(res[1].arg[3]) = 1
    /\ ~res[1].out.ok
    /\ table = res[1].arg[1]

\* ------------------------------------------------ claims: round trips

\* C18: the N points added in order to a fresh SimplePointCloud are what
\* points() returns: N points, in the order they were added, each equal
\* field by field to the point added.
C18_RowRoundTrip ==
    is_some(added) =>
        /\ Len(Simple_points(simple)) = Len(added[1])
        /\ \A i \in 1..Len(added[1]) : Simple_points(simple)[i] = added[1][i]

\* Two different points were added, the one with colour and intensity last.
C18_Witness ==
    /\ is_some(added)
    /\ Len(added[1]) = 2
    /\ added[1][1] # added[1][2]
    /\ is_some(added[1][2].intensity) /\ is_some(added[1][2].a)
    /\ Simple_points(simple) = added[1]

\* C19: for every list ps of points, with different attribute keys from
\* point to point, from_points(ps).to_points() returns a list of the length
\* of ps whose i-th point equals ps[i] in x, y, z and in its attributes:
\* every attribute the point carried comes back with its value, and one it
\* did not carry is absent.
C19_TableRoundTrip ==
    Called("from_points") =>
        LET ps == res[1].arg
            back == Table_to_points(res[1].out.val)
        IN  /\ res[1].out.ok
            /\ back.ok
            /\ Len(back.val) = Len(ps)
            /\ \A i \in 1..Len(ps) :
                  /\ back.val[i].x = ps[i].x
                  /\ back.val[i].y = ps[i].y
                  /\ back.val[i].z = ps[i].z
                  /\ DOMAIN back.val[i].attributes = DOMAIN ps[i].attributes
                  /\ \A k \in DOMAIN ps[i].attributes :
                        back.val[i].attributes[k] = ps[i].attributes[k]

\* ------------------------------------------------- reserve, then add_point

\* The arguments of reserve: room for up to MaxPoints points.
Additional == 1..MaxPoints

\* reserve(additional) on both layouts; res counts the add_point calls since.
ReserveCall(additional) ==
    /\ simple' = Simple_reserve(simple, additional)
    /\ compact' = Compact_reserve(compact, additional)
    /\ Returned("reserve", additional, 0)
    /\ UNCHANGED <<added, ta, tb, tc, pt, table>>

\* add_point, counted when a reserve came before it
ReservedAddPoint(point) ==
    /\ Simple_num_points(simple) < MaxPoints
    /\ Compact_num_points(compact) < MaxPoints
    /\ simple' = Simple_add_point(simple, point)
    /\ compact' = Compact_add_point(compact, point)
    /\ added' = IF is_some(added) THEN Some(Append(added[1], point)) ELSE None
    /\ res' = IF Called("reserve") THEN Some([res[1] EXCEPT !.out = @ + 1]) ELSE res
    /\ UNCHANGED <<ta, tb, tc, pt, table>>

ReserveNext ==
    \/ \E additional \in Additional : ReserveCall(additional)
    \/ \E point \in PointInputs : ReservedAddPoint(point)

ReserveSpec == Init /\ [][ReserveNext]_vars

\* The allocation of every column: its capacity, None while the column is
\* not materialized.
Storage(c) ==
    [col \in {"x", "y"} \cup OptionalColumns |->
        IF col \in {"x", "y"} THEN Some(c[col].cap)
        ELSE IF is_some(c[col]) THEN Some(c[col][1].cap) ELSE None]

\* C20: after reserve(k) on a CompactPointCloud, none of the next k add_point
\* calls allocates or reallocates the storage of a column, whatever optional
\* attributes the points carry, those of columns not yet materialized too.
C20_NoReallocation ==
    [][(/\ Called("reserve")
        /\ res[1].out < res[1].arg
        /\ Compact_num_points(compact') = Compact_num_points(compact) + 1)
          => Storage(compact') = Storage(compact)]_vars

\* ------------------------------------------- Point builders, then add_point

\* The operations that return a Point
PointOps ==
    {"new_2d", "new_3d", "with_rgb", "with_rgba", "with_intensity", "with_ring_id",
     "with_time_offset", "transform", "add", "sub", "mul", "div"}

\* The last call returned a Point, res[1].out.
Built == res # None /\ res[1].op \in PointOps

\* A whole number of at most MaxChain
Short(v) == v[2] = 1 /\ Abs(v[1]) <= MaxChain

\* The range of values in which the model goes on with a chain of calls.
ChainSmall(p) ==
    /\ Short(p.x) /\ Short(p.y)
    /\ is_some(p.z) => Short(p.z[1])
    /\ is_some(p.intensity) => Short(p.intensity[1])

\* The point being built: no point is in the clouds yet.
Chaining == Built /\ Compact_num_points(compact) = 0 /\ ChainSmall(res[1].out)

\* The Point handed to + and -: coloured, so that the colour of the result
\* is seen to be self's.
Others == {Point_with_rgb(Point_new_3d(R(1), R(2), R(3)), 1, 2, 3)}

\* The f32 handed to * and /
Scalars == {R(2)}

New2d ==
    /\ Compact_num_points(compact) = 0
    /\ Returned("new_2d", <<R(1), R(2)>>, Point_new_2d(R(1), R(2)))
    /\ UNCHANGED <<cloudVars, ta, tb, tc, pt, table>>

New3d ==
    /\ Compact_num_points(compact) = 0
    /\ Returned("new_3d", <<R(1), R(2), R(3)>>, Point_new_3d(R(1), R(2), R(3)))
    /\ UNCHANGED <<cloudVars, ta, tb, tc, pt, table>>

WithRgb ==
    /\ Chaining
    /\ Returned("with_rgb", res[1].out, Point_with_rgb(res[1].out, 10, 20, 30))
    /\ UNCHANGED <<cloudVars, ta, tb, tc, pt, table>>

WithRgba ==
    /\ Chaining
    /\ Returned("with_rgba", res[1].out, Point_with_rgba(res[1].out, 10, 20, 30, 40))
    /\ UNCHANGED <<cloudVars, ta, tb, tc, pt, table>>

WithIntensity ==
    /\ Chaining
    /\ Returned("with_intensity", res[1].out, Point_with_intensity(res[1].out, R(1)))
    /\ UNCHANGED <<cloudVars, ta, tb, tc, pt, table>>

WithRingId ==
    /\ Chaining
    /\ Returned("with_ring_id", res[1].out, Point_with_ring_id(res[1].out, 7))
    /\ UNCHANGED <<cloudVars, ta, tb, tc, pt, table>>

WithTimeOffset ==
    /\ Chaining
    /\ Returned("with_time_offset", res[1].out, Point_with_time_offset(res[1].out, <<1, 4>>))
    /\ UNCHANGED <<cloudVars, ta, tb, tc, pt, table>>

\* p.transform(&a2b) with the identity matrix
PointTransform ==
    /\ Chaining
    /\ Returned("transform", res[1].out, Point_transform(res[1].out, eye(4)))
    /\ UNCHANGED <<cloudVars, ta, tb, tc, pt, table>>

PointAdd(other) ==
    /\ Chaining
    /\ Returned("add", res[1].out, Point_add(res[1].out, other))
    /\ UNCHANGED <<cloudVars, ta, tb, tc, pt, table>>

PointSub(other) ==
    /\ Chaining
    /\ Returned("sub", res[1].out, Point_sub(res[1].out, other))
    /\ UNCHANGED <<cloudVars, ta, tb, tc, pt, table>>

PointMul(scalar) ==
    /\ Chaining
    /\ Returned("mul", res[1].out, Point_mul(res[1].out, scalar))
    /\ UNCHANGED <<cloudVars, ta, tb, tc, pt, table>>

PointDiv(scalar) ==
    /\ Chaining
    /\ Returned("div", res[1].out, Point_div(res[1].out, scalar))
    /\ UNCHANGED <<cloudVars, ta, tb, tc, pt, table>>

\* add_point of the point point on both layouts
AddTo(point) ==
    /\ simple' = Simple_add_point(simple, point)
    /\ compact' = Compact_add_point(compact, point)
    /\ added' = IF is_some(added) THEN Some(Append(added[1], point)) ELSE None
    /\ UNCHANGED <<transformVars, table>>

\* The point built is the first point of the clouds.
AddBuilt ==
    /\ Built
    /\ Compact_num_points(compact) = 0
    /\ AddTo(res[1].out)

\* The points after the first are those of BuilderPoints.
AddBuilder(point) ==
    /\ Compact_num_points(compact) \in 1..(MaxPoints - 1)
    /\ AddTo(point)

BuilderNext ==
    \/ New2d
    \/ New3d
    \/ WithRgb
    \/ WithRgba
    \/ WithIntensity
    \/ WithRingId
    \/ WithTimeOffset
    \/ PointTransform
    \/ \E other \in Others : PointAdd(other)
    \/ \E other \in Others : PointSub(other)
    \/ \E scalar \in Scalars : PointMul(scalar)
    \/ \E scalar \in Scalars : PointDiv(scalar)
    \/ AddBuilt
    \/ \E point \in BuilderPoints : AddBuilder(point)

BuilderSpec == Init /\ [][BuilderNext]_vars

\* ------------------------------------------------- claims: the builders

\* C21: every Point obtained from new_2d / new_3d and a chain of with_rgb,
\* with_rgba, with_intensity, with_ring_id, with_time_offset, transform, +,
\* -, * and / has r, g and b all present or all absent, and alpha only with
\* them; and in a CompactPointCloud to which only such points were added the
\* r, g and b columns are all materialized or all absent.
C21_ColourTriple ==
    /\ Built =>
          /\ ColourComplete(res[1].out)
          /\ is_some(res[1].out.a) => Point_has_color(res[1].out)
    /\ is_some(compact.r) = is_some(compact.g)
    /\ is_some(compact.g) = is_some(compact.b)

\* A point without colour that went through * was added, then a coloured
\* one: the colour columns were materialized by the second add_point.
C21_Witness ==
    /\ Built /\ res[1].op = "mul"
    /\ ~is_some(res[1].out.r)
    /\ is_some(added) /\ Len(added[1]) = 2
    /\ added[1][1] = res[1].out
    /\ Point_has_color(added[1][2]) /\ ~is_some(added[1][2].a)
    /\ Compact_has_color(compact) /\ ~is_some(compact.a)

\* The attribute names of the capability queries
QueryNames == {"x", "y", "z", "r", "g", "b", "a", "intensity", "ring_id", "time_offset"}

\* C22: a SimplePointCloud and a CompactPointCloud that received the same
\* points, built with the constructors and the with_* builders, through
\* add_point return the same num_points(), is_3d(), has_color(),
\* has_intensity() and has_attribute(name) for every name.
C22_SameAnswers ==
    is_some(added) =>
        /\ Simple_num_points(simple) = Compact_num_points(compact)
        /\ Simple_is_3d(simple) = Compact_is_3d(compact)
        /\ Simple_has_color(simple) = Compact_has_color(compact)
        /\ Simple_has_intensity(simple) = Compact_has_intensity(compact)
        /\ \A name \in QueryNames :
              Simple_has_attribute(simple, name) = Compact_has_attribute(compact, name)

\* ------------------------------- claims: the row layout after a transform

\* C23: after transform or transform_inplace of a SimplePointCloud every
\* point has z present, an absent z having been taken as 0 (under the
\* identity matrix a point (x, y) becomes (x, y, 0)), so that is_3d() is true
\* of a cloud that is not empty; an empty cloud stays empty, is_3d() false.
C23_AlwaysThreeD ==
    (res # None /\ res[1].op \in SimpleTransforms) =>
        LET self == res[1].arg[1]
            a2b == res[1].arg[2]
            out == res[1].out.val
        IN  /\ simple = out
            /\ Simple_num_points(out) = Simple_num_points(self)
            /\ \A i \in 1..Simple_num_points(out) :
                  /\ is_some(Simple_points(out)[i].z)
                  /\ a2b = eye(4) =>
                        /\ Simple_points(out)[i].x = Simple_points(self)[i].x
                        /\ Simple_points(out)[i].y = Simple_points(self)[i].y
                        /\ Simple_points(out)[i].z
                              = Some(unwrap_or(Simple_points(self)[i].z, R(0)))
            /\ Simple_is_3d(out) = (Simple_num_points(self) > 0)

\* transform_inplace with the identity matrix on a cloud of one 2D point
C23_Witness ==
    /\ Called("SimplePointCloud::transform_inplace")
    /\ res[1].arg[2] = eye(4)
    /\ Simple_num_points(res[1].arg[1]) = 1
    /\ ~Simple_is_3d(res[1].arg[1])
    /\ Simple_is_3d(simple)

=============================================================================
